---- MODULE Spec2Model ----
(***************************************************************************)
(* Model of apache-log-exporter-api.py: the follow() generator that tails  *)
(* a log file, ApacheLogExporter.read_log_files() that drives it, and the  *)
(* file system the two observe (the log writer and the rotation tool).     *)
(*                                                                         *)
(* A file is a sequence of one-character strings.  The path names an inode *)
(* (0: no such file); follow() reads through its own open file, which      *)
(* stays readable after the path has been rotated away from it.            *)
(***************************************************************************)
EXTENDS Integers, Sequences, FiniteSets, TLC

\* ---------------------------------------------------------------- bounds
MaxSize == 3        \* longest file content, in characters
MaxEvents == 4      \* steps the writer and the rotation take in a run
NumInodes == 2      \* inode numbers the file system hands out
MaxObs == 1         \* observations the sink accepts before the parser
                    \* only rejects lines

NL == "\n"
Chars == {"a", NL}
Inodes == 1..NumInodes

UNSPECIFIED == "def"

VARIABLES
    files,                  \* inode -> content
    path,                   \* inode self.fn names, 0 when it does not exist
    selfIgnoreExisting,     \* self.ignoreExisting
    enableHistogram,        \* self.enableHistogram
    webRequestSummary,      \* label key -> [count, sum]
    webRequestBytesOutHistogram,
    pc,                     \* where read_log_files / follow stands
    ignoreExisting,         \* read_log_files' local
    curLine,                \* the line follow() yielded to the for loop
    err,                    \* the exception the except clause caught last
    outcome,                \* history: what the loop body did, when the last
                            \* step was the loop body; "none" otherwise
    parsed,                 \* history: what self.parser.parse returned to the
                            \* loop body, when the last step was the loop body
    curEntry,               \* the loop body's entry (parse_line's result)
    remote_host,            \* the loop body's remote_host
    records,                \* history: yielded lines for which parse_line
                            \* returned an entry
    followIgnoreExisting,   \* follow's parameter ignoreExisting
    origInode, lastSize,    \* follow's locals
    file, filePos,          \* follow's open file: its inode and offset
    line,                   \* follow's partial-line buffer
    openSize,               \* history: size of the file when it was opened,
                            \* 0 once it has been truncated
    heldOverPoll,           \* history: a poll passed while the buffer (or
                            \* the line just yielded) held a partial line
    events,                 \* history: steps the file system has taken
    shrunk                  \* history: truncated in place since it was opened

fsVars == <<files, path>>
cfgVars == <<selfIgnoreExisting, enableHistogram>>
sinkVars == <<webRequestSummary, webRequestBytesOutHistogram>>
loopVars == <<pc, ignoreExisting, curLine, err>>
followVars == <<followIgnoreExisting, origInode, lastSize, file, filePos, line>>
histVars == <<openSize, heldOverPoll, shrunk>>
bodyVars == <<parsed, curEntry, remote_host>>
vars == <<events, fsVars, cfgVars, sinkVars, loopVars, outcome, bodyVars, records,
          followVars, histVars>>

\* ------------------------------------------------------------- the files
EndsWithNL(s) == Len(s) > 0 /\ s[Len(s)] = NL

\* index of the first newline after offset p, 0 when there is none
NextNL(content, p) ==
    LET S == {i \in (p + 1)..Len(content) : content[i] = NL}
    IN  IF S = {} THEN 0 ELSE CHOOSE i \in S : \A j \in S : i <= j

\* mutant: file.read() in place of file.readline()
readline_ToEndOfFile(content, p) ==
    IF p >= Len(content) THEN <<>> ELSE SubSeq(content, p + 1, Len(content))

\* file.readline() at offset p: through the next newline, or to end of file;
\* empty at or beyond end of file
readline(content, p) ==
    IF p >= Len(content) THEN <<>>
    ELSE LET n == NextNL(content, p)
         IN  SubSeq(content, p + 1, IF n = 0 THEN Len(content) ELSE n)

\* an inode number is free when neither the path nor the open file holds it
HasFreeInode == Inodes \ {path, file} # {}

\* the lowest free inode number
FreshInode ==
    CHOOSE i \in Inodes : /\ i \notin {path, file}
                          /\ \A j \in 1..(i - 1) : j \in {path, file}

\* the file system after the path moved to p and the open file to f:
\* an inode that neither holds is gone
Release(fs, p, f) == [i \in Inodes |-> IF i \in {p, f} THEN fs[i] ELSE <<>>]

\* ------------------------------------------------ the parser and the sink
Fields == {"virtual_host", "server_port", "remote_host", "request_uri",
           "final_status", "bytes_out"}

\* what the format's directives put in an entry when all are present
FullEntries ==
    [virtual_host : {"example.com"}, server_port : {8080},
     remote_host : {"127.0.0.1", "10.0.0.9"}, request_uri : {"/"},
     final_status : {200}, bytes_out : {512}]

\* the fields parse_line gives a default, and those the loop body reads
\* without one
Optional == {"virtual_host", "server_port", "bytes_out"}
Required == Fields \ Optional

\* which fields an entry may carry: all of them, all but the optional ones,
\* or all but one of the required ones
Shapes == {Fields, Required} \cup {Fields \ {f} : f \in Required}

\* the entries self.parser.parse may return
Entries == {[f \in F |-> e[f]] : F \in Shapes, e \in FullEntries}

hasattr(entry, f) == f \in DOMAIN entry

\* entry.f = v
setattr(entry, f, v) ==
    [g \in DOMAIN entry \cup {f} |-> IF g = f THEN v ELSE entry[g]]

\* mutant: an absent server_port becomes 8080
parse_line_OtherPort(entry) ==
    LET e1 == IF ~hasattr(entry, "virtual_host")
              THEN setattr(entry, "virtual_host", "unspecified") ELSE entry
        e2 == IF ~hasattr(e1, "server_port")
              THEN setattr(e1, "server_port", 8080) ELSE e1
        e3 == IF ~hasattr(e2, "bytes_out")
              THEN setattr(e2, "bytes_out", 0) ELSE e2
    IN  e3

\* parse_line after self.parser.parse returned entry
parse_line(entry) ==
    LET e1 == IF ~hasattr(entry, "virtual_host")
              THEN setattr(entry, "virtual_host", "unspecified") ELSE entry
        e2 == IF ~hasattr(e1, "server_port")
              THEN setattr(e1, "server_port", 80) ELSE e1
        e3 == IF ~hasattr(e2, "bytes_out")
              THEN setattr(e2, "bytes_out", 0) ELSE e2
    IN  e3

\* the alias table handed to the constructor
resolver == [h \in {"127.0.0.1", "127.0.1.1"} |-> "localhost"]

\* self.resolver.get(host, UNSPECIFIED)
ResolverGet(host) ==
    IF host \in DOMAIN resolver THEN resolver[host] ELSE UNSPECIFIED

\* str() of the integers an entry carries
str(n) ==
    CASE n = 80 -> "80" [] n = 8080 -> "8080" [] n = 200 -> "200"

\* the attributes the loop body reads without a hasattr guard
ObserveRaises(entry) ==
    \/ ~hasattr(entry, "remote_host")
    \/ ~hasattr(entry, "request_uri")
    \/ ~hasattr(entry, "final_status")

SummaryKey(entry) ==
    <<entry.virtual_host, str(entry.server_port), entry.request_uri,
      str(entry.final_status), ResolverGet(entry.remote_host)>>

\* mutant: the histogram is labelled with the unresolved remote_host
HistogramKey_Unresolved(entry) == <<entry.virtual_host, entry.remote_host>>

HistogramKey(entry) == <<entry.virtual_host, ResolverGet(entry.remote_host)>>

\* metric.labels(key).observe(amount): count + 1, sum + amount
observe(metric, key, amount) ==
    LET old == IF key \in DOMAIN metric THEN metric[key]
               ELSE [count |-> 0, sum |-> 0]
    IN  [k \in DOMAIN metric \cup {key} |->
            IF k = key THEN [count |-> old.count + 1, sum |-> old.sum + amount]
            ELSE metric[k]]

RECURSIVE TotalCount(_)
TotalCount(metric) ==
    IF DOMAIN metric = {} THEN 0
    ELSE LET k == CHOOSE x \in DOMAIN metric : TRUE
         IN  metric[k].count
             + TotalCount([x \in DOMAIN metric \ {k} |-> metric[x]])

NoMetric == [k \in {} |-> [count |-> 0, sum |-> 0]]

\* no entry: the loop body is not at work
NoEntry == [f \in {} |-> 0]

\* a step outside the body of the for loop: the body's locals hold nothing
\* that is read again
OutsideBody ==
    /\ outcome' = "none"
    /\ parsed' = NoEntry
    /\ curEntry' = NoEntry
    /\ remote_host' = ""
    /\ records' = records

\* ------------------------------------------------------------------ Init
Init ==
    /\ files = [i \in Inodes |-> <<>>]
    /\ path = 1
    /\ selfIgnoreExisting \in BOOLEAN
    /\ enableHistogram \in BOOLEAN
    /\ webRequestSummary = NoMetric
    /\ webRequestBytesOutHistogram = NoMetric
    /\ pc = "stat"
    /\ ignoreExisting = selfIgnoreExisting
    /\ curLine = <<>>
    /\ err = "none"
    /\ outcome = "none"
    /\ parsed = NoEntry
    /\ curEntry = NoEntry
    /\ remote_host = ""
    /\ records = 0
    /\ followIgnoreExisting = FALSE
    /\ origInode = 0
    /\ lastSize = 0
    /\ file = 0
    /\ filePos = 0
    /\ line = <<>>
    /\ openSize = 0
    /\ heldOverPoll = FALSE
    /\ shrunk = FALSE
    /\ events = 0

\* ------------------------------------------- the writer and the rotation
\* the file system moves while the exporter runs, MaxEvents times at most
Running == pc # "dead" /\ events < MaxEvents

\* the log writer appends one character to the file the path names
WriteChar(c) ==
    /\ Running
    /\ events' = events + 1
    /\ path # 0
    /\ Len(files[path]) < MaxSize
    /\ files' = [files EXCEPT ![path] = Append(@, c)]
    /\ OutsideBody
    /\ UNCHANGED <<path, cfgVars, sinkVars, loopVars, followVars, histVars>>

\* the file is cut to k characters in place: same inode, smaller size
Truncate(k) ==
    /\ Running
    /\ events' = events + 1
    /\ path # 0
    /\ k < Len(files[path])
    /\ files' = [files EXCEPT ![path] = SubSeq(@, 1, k)]
    /\ shrunk' = (shrunk \/ file = path)
    /\ openSize' = IF file = path THEN 0 ELSE openSize
    /\ OutsideBody
    /\ UNCHANGED <<path, cfgVars, sinkVars, loopVars, followVars, heldOverPoll>>

\* the path is replaced by a new, empty file with another inode
Rotate ==
    /\ Running
    /\ events' = events + 1
    /\ path # 0
    /\ HasFreeInode
    /\ path' = FreshInode
    /\ files' = Release(files, path', file)
    /\ OutsideBody
    /\ UNCHANGED <<cfgVars, sinkVars, loopVars, followVars, histVars>>

\* the file is removed
Remove ==
    /\ Running
    /\ events' = events + 1
    /\ path # 0
    /\ path' = 0
    /\ files' = Release(files, 0, file)
    /\ OutsideBody
    /\ UNCHANGED <<cfgVars, sinkVars, loopVars, followVars, histVars>>

\* a new, empty file appears at the path
Create ==
    /\ Running
    /\ events' = events + 1
    /\ path = 0
    /\ HasFreeInode
    /\ path' = FreshInode
    /\ files' = Release(files, path', file)
    /\ OutsideBody
    /\ UNCHANGED <<cfgVars, sinkVars, loopVars, followVars, histVars>>

\* ---------------------------------------------------------- the follower
\* mutant: the except clause does not name the exception
Raise_Uncaught(e) ==
    /\ err' = e
    /\ pc' = "dead"
    /\ file' = 0
    /\ filePos' = 0
    /\ line' = <<>>
    /\ followIgnoreExisting' = FALSE
    /\ files' = Release(files, path, 0)
    /\ openSize' = 0
    /\ heldOverPoll' = FALSE
    /\ shrunk' = FALSE
    /\ OutsideBody
    /\ UNCHANGED <<path, cfgVars, sinkVars, curLine, ignoreExisting>>

\* mutant: the except clause leaves ignoreExisting as it is
Raise_KeepsIgnoreExisting(e) ==
    /\ err' = e
    /\ pc' = "recover"
    /\ file' = 0
    /\ filePos' = 0
    /\ line' = <<>>
    /\ followIgnoreExisting' = FALSE
    /\ files' = Release(files, path, 0)
    /\ openSize' = 0
    /\ heldOverPoll' = FALSE
    /\ shrunk' = FALSE
    /\ OutsideBody
    /\ UNCHANGED <<path, cfgVars, sinkVars, curLine, ignoreExisting>>

\* an exception leaves follow() and reaches the except clause of
\* read_log_files: the generator and its open file are gone, the loop
\* clears its ignoreExisting and sleeps
Raise(e) ==
    /\ err' = e
    /\ ignoreExisting' = FALSE
    /\ pc' = "recover"
    /\ file' = 0
    /\ filePos' = 0
    /\ line' = <<>>
    /\ followIgnoreExisting' = FALSE
    /\ files' = Release(files, path, 0)
    /\ openSize' = 0
    /\ heldOverPoll' = FALSE
    /\ shrunk' = FALSE
    /\ OutsideBody
    /\ UNCHANGED <<path, cfgVars, sinkVars, curLine>>

\* follow(self.fn, ignoreExisting) up to GetInodeAndSize(fn)
Stat ==
    /\ UNCHANGED events
    /\ pc = "stat"
    /\ IF path = 0
       THEN /\ Raise("FileNotFoundError")
            /\ UNCHANGED <<origInode, lastSize>>
       ELSE /\ origInode' = path
            /\ lastSize' = Len(files[path])
            /\ followIgnoreExisting' = ignoreExisting
            /\ pc' = "open"
            /\ OutsideBody
            /\ UNCHANGED <<fsVars, cfgVars, sinkVars, ignoreExisting, curLine,
                           err, file, filePos, line, histVars>>

\* file = open(fn, 'r'); line = ''
Open ==
    /\ UNCHANGED events
    /\ pc = "open"
    /\ IF path = 0
       THEN /\ Raise("FileNotFoundError")
            /\ UNCHANGED <<origInode, lastSize>>
       ELSE /\ file' = path
            /\ filePos' = 0
            /\ line' = <<>>
            /\ pc' = "read"
            /\ openSize' = Len(files[path])
            /\ heldOverPoll' = FALSE
            /\ shrunk' = FALSE
            /\ OutsideBody
            /\ UNCHANGED <<fsVars, cfgVars, sinkVars, ignoreExisting, curLine,
                           err, followIgnoreExisting, origInode, lastSize>>

\* mutant: line = tmp
Accumulate_Overwrite(buf, tmp) == tmp

\* line += tmp
Accumulate(buf, tmp) == buf \o tmp

\* mutant: an empty read leaves ignoreExisting as it is
Read_KeepsIgnoring ==
    /\ UNCHANGED events
    /\ pc = "read"
    /\ LET tmp == readline(files[file], filePos)
           acc == Accumulate(line, tmp)
       IN  IF tmp # <<>>
           THEN /\ filePos' = filePos + Len(tmp)
                /\ IF EndsWithNL(acc)
                   THEN /\ line' = <<>>
                        /\ IF ~followIgnoreExisting
                           THEN /\ curLine' = acc
                                /\ pc' = "line"
                                /\ UNCHANGED heldOverPoll
                           ELSE /\ heldOverPoll' = FALSE
                                /\ UNCHANGED <<curLine, pc>>
                   ELSE /\ line' = acc
                        /\ UNCHANGED <<curLine, pc, heldOverPoll>>
                /\ UNCHANGED followIgnoreExisting
           ELSE /\ followIgnoreExisting' = followIgnoreExisting
                /\ pc' = "sleep"
                /\ UNCHANGED <<filePos, line, curLine, heldOverPoll>>
    /\ OutsideBody
    /\ UNCHANGED <<fsVars, cfgVars, sinkVars, ignoreExisting, err, origInode,
                   lastSize, file, openSize, shrunk>>

\* one turn of the while loop that reads: tmp = file.readline() and the
\* branch taken on it
Read ==
    /\ UNCHANGED events
    /\ pc = "read"
    /\ LET tmp == readline(files[file], filePos)
           acc == Accumulate(line, tmp)
       IN  IF tmp # <<>>
           THEN /\ filePos' = filePos + Len(tmp)
                /\ IF EndsWithNL(acc)
                   THEN /\ line' = <<>>
                        /\ IF ~followIgnoreExisting
                           THEN /\ curLine' = acc
                                /\ pc' = "line"
                                /\ UNCHANGED heldOverPoll
                           ELSE /\ heldOverPoll' = FALSE
                                /\ UNCHANGED <<curLine, pc>>
                   ELSE /\ line' = acc
                        /\ UNCHANGED <<curLine, pc, heldOverPoll>>
                /\ UNCHANGED followIgnoreExisting
           ELSE /\ followIgnoreExisting' = FALSE
                /\ pc' = "sleep"
                /\ UNCHANGED <<filePos, line, curLine, heldOverPoll>>
    /\ OutsideBody
    /\ UNCHANGED <<fsVars, cfgVars, sinkVars, ignoreExisting, err, origInode,
                   lastSize, file, openSize, shrunk>>

\* mutant: any change of size counts as a shrink
PollError_AnyChange(newInode, newSize) ==
    IF newInode = 0 THEN "FileNotFoundError"
    ELSE IF newInode # origInode THEN "InodeChangedError"
    ELSE IF newSize # lastSize THEN "FileShrunkError"
    ELSE "none"

\* mutant: the size is compared before the inode
PollError_SizeFirst(newInode, newSize) ==
    IF newInode = 0 THEN "FileNotFoundError"
    ELSE IF newSize < lastSize THEN "FileShrunkError"
    ELSE IF newInode # origInode THEN "InodeChangedError"
    ELSE "none"

\* the exception the poll raises on what GetInodeAndSize(fn) returns,
\* "none" when it raises nothing
PollError(newInode, newSize) ==
    IF newInode = 0 THEN "FileNotFoundError"
    ELSE IF newInode # origInode THEN "InodeChangedError"
    ELSE IF newSize < lastSize THEN "FileShrunkError"
    ELSE "none"

\* after time.sleep(1): GetInodeAndSize(fn) and the two checks
Poll ==
    /\ UNCHANGED events
    /\ pc = "sleep"
    /\ LET newSize == IF path = 0 THEN 0 ELSE Len(files[path])
           e == PollError(path, newSize)
       IN  IF e # "none"
           THEN /\ Raise(e)
                /\ UNCHANGED <<origInode, lastSize>>
           ELSE /\ lastSize' = newSize
                /\ pc' = "read"
                /\ heldOverPoll' = (line # <<>>)
                /\ OutsideBody
                /\ UNCHANGED <<fsVars, cfgVars, sinkVars, ignoreExisting,
                               curLine, err, followIgnoreExisting, origInode,
                               file, filePos, line, openSize, shrunk>>

\* ----------------------------------------------------- read_log_files
\* mutant: no try around parse_line
LineParseError_Uncaught ==
    /\ UNCHANGED events
    /\ pc = "line"
    /\ outcome' = "error"
    /\ UNCHANGED <<bodyVars, records>>
    /\ pc' = "dead"
    /\ UNCHANGED <<fsVars, cfgVars, sinkVars, ignoreExisting, curLine, err,
                   followVars, histVars>>

\* the body of the for loop on a line the parser rejects
LineParseError ==
    /\ UNCHANGED events
    /\ pc = "line"
    /\ outcome' = "error"
    /\ UNCHANGED <<bodyVars, records>>
    /\ pc' = "read"
    /\ curLine' = <<>>
    /\ heldOverPoll' = FALSE
    /\ UNCHANGED <<fsVars, cfgVars, sinkVars, ignoreExisting, err, followVars,
                   openSize, shrunk>>

\* the body of the for loop on a line for which parse_line returns a
\* false value
LineEmpty ==
    /\ UNCHANGED events
    /\ pc = "line"
    /\ outcome' = "empty"
    /\ UNCHANGED <<bodyVars, records>>
    /\ pc' = "read"
    /\ curLine' = <<>>
    /\ heldOverPoll' = FALSE
    /\ UNCHANGED <<fsVars, cfgVars, sinkVars, ignoreExisting, err, followVars,
                   openSize, shrunk>>

\* mutant: the histogram is observed whatever self.enableHistogram says
ObserveHistogram_Always(e) ==
    observe(webRequestBytesOutHistogram, HistogramKey(e), e.bytes_out)

\* if self.enableHistogram: webRequestBytesOutHistogram.labels(..).observe(..)
ObserveHistogram(e) ==
    IF enableHistogram
    THEN observe(webRequestBytesOutHistogram, HistogramKey(e), e.bytes_out)
    ELSE webRequestBytesOutHistogram

\* the body of the for loop on a line the parser turns into raw
LoopBody(raw) ==
    /\ UNCHANGED events
    /\ pc = "line"
    /\ parsed' = raw
    /\ curEntry' = parse_line(raw)
    /\ records' = records + 1
    /\ remote_host' = IF hasattr(curEntry', "remote_host")
                      THEN ResolverGet(curEntry'.remote_host) ELSE ""
    /\ IF ObserveRaises(curEntry')
       THEN /\ pc' = "dead"
            /\ outcome' = "AttributeError"
            /\ UNCHANGED <<sinkVars, curLine>>
       ELSE /\ webRequestSummary' =
                   observe(webRequestSummary, SummaryKey(curEntry'),
                           curEntry'.bytes_out)
            /\ webRequestBytesOutHistogram' = ObserveHistogram(curEntry')
            /\ outcome' = "observed"
            /\ pc' = "read"
            /\ curLine' = <<>>
    /\ heldOverPoll' = FALSE
    /\ UNCHANGED <<fsVars, cfgVars, ignoreExisting, err, followVars, openSize,
                   shrunk>>

\* the loop body on one of the entries of Entries, MaxObs observations at most
LineEntry(raw) ==
    /\ TotalCount(webRequestSummary) < MaxObs
    /\ LoopBody(raw)

\* time.sleep(1) of the except clause is over: the while loop starts again
Backoff ==
    /\ UNCHANGED events
    /\ pc = "recover"
    /\ pc' = "stat"
    /\ err' = "none"
    /\ origInode' = 0
    /\ lastSize' = 0
    /\ OutsideBody
    /\ UNCHANGED <<fsVars, cfgVars, sinkVars, ignoreExisting, curLine,
                   followIgnoreExisting, file, filePos, line, histVars>>

\* ------------------------------------------------------------------ Next
Environment ==
    \/ \E c \in Chars : WriteChar(c)
    \/ \E k \in 0..(MaxSize - 1) : Truncate(k)
    \/ Rotate
    \/ Remove
    \/ Create

Program ==
    \/ Stat
    \/ Open
    \/ Read
    \/ Poll
    \/ LineParseError
    \/ LineEmpty
    \/ \E raw \in Entries : LineEntry(raw)
    \/ Backoff

Next == Environment \/ Program

Spec == Init /\ [][Next]_vars

\* the exporter as main() starts it: get_settings gives no enableHistogram,
\* so the constructor's default holds
InitMain == Init /\ enableHistogram

\* the exporter is a running process: its sleeps end and its steps are taken
FairSpec == InitMain /\ [][Next]_vars /\ WF_vars(Program)

\* entries of requests to one virtual host on two ports, from a host the
\* alias table has and one it lacks, with and without final_status
SinkEntries ==
    LET full == [virtual_host : {"example.com"}, server_port : {80, 8080},
                 remote_host : {"127.0.0.1", "10.0.0.9"}, request_uri : {"/"},
                 final_status : {200}, bytes_out : {0, 512}]
    IN  full \cup {[f \in Fields \ {"final_status"} |-> e[f]] : e \in full}

\* the loop body on one of the entries of SinkEntries
SinkLineEntry == \E raw \in SinkEntries : LoopBody(raw)

\* the exporter ingesting a log that is only appended to: every line is
\* yielded once, and the sink takes as many observations as there are lines
SinkNext ==
    \/ \E c \in Chars : WriteChar(c)
    \/ Stat
    \/ Open
    \/ Read
    \/ Poll
    \/ LineParseError
    \/ LineEmpty
    \/ SinkLineEntry

SinkSpec == InitMain /\ [][SinkNext]_vars

\* ---------------------------------------------------------------- claims
Following == pc \in {"read", "sleep", "line"}

\* a step of Read that got characters from the file
ReadsData == pc = "read" /\ filePos' # filePos

\* a step of Poll
Polls == pc = "sleep" /\ pc' # "sleep"

NewlinesIn(s) == Cardinality({i \in 1..Len(s) : s[i] = NL})

\* what a step may do to the buffer and the yielded line
C1_Step ==
    /\ ReadsData =>
         LET tmp == SubSeq(files[file], filePos + 1, filePos')
         IN  IF EndsWithNL(tmp)
             THEN /\ line' = <<>>
                  /\ ~followIgnoreExisting =>
                       (pc' = "line" /\ curLine' = line \o tmp)
             ELSE /\ line' = line \o tmp
                  /\ pc' = "read"
                  /\ curLine' = curLine
    /\ (Following /\ pc' \in {"read", "sleep"} /\ filePos' = filePos) =>
         line' = line
    /\ pc' = "line" => (pc = "read" \/ pc = "line")

\* C1: follow() yields only newline-terminated lines; characters read
\* without their newline stay in the buffer over the polls, and the read that
\* brings the newline yields one line: the buffer followed by that read.
C1_PartialLinesBuffered ==
    /\ [](pc = "line" => (EndsWithNL(curLine) /\ NewlinesIn(curLine) = 1))
    /\ [](\A i \in 1..Len(line) : line[i] # NL)
    /\ [][C1_Step]_vars

\* a line is yielded whose first characters waited in the buffer over a poll
C1_Witness == pc = "line" /\ heldOverPoll /\ Len(curLine) >= 2

\* C2: a poll that finds another inode at the path raises InodeChangedError,
\* whatever the size of the new file, and yields nothing.
C2_InodeChangeRaises ==
    [][(Polls /\ path # 0 /\ path # origInode) =>
          /\ pc' = "recover"
          /\ err' = "InodeChangedError"
          /\ curLine' = curLine
          /\ UNCHANGED sinkVars]_vars

\* the poll raised InodeChangedError on a new file smaller than lastSize
C2_Witness ==
    /\ pc = "recover"
    /\ err = "InodeChangedError"
    /\ path # 0
    /\ Len(files[path]) < lastSize

\* C3: once the file has been truncated in place under the open follower,
\* the follower's next poll of the same inode raises FileShrunkError.
C3_ShrinkAlwaysRaises ==
    [][(Polls /\ shrunk /\ file = path /\ path = origInode) =>
          (pc' = "recover" /\ err' = "FileShrunkError")]_vars

\* C4: a line the parser rejects is skipped: the loop goes back to the same
\* follower, which keeps its file, offset and buffer, and the sink is as it
\* was.
C4_ParseErrorSkipped ==
    [][outcome' = "error" =>
          /\ pc = "line"
          /\ pc' = "read"
          /\ file' = file /\ file # 0
          /\ UNCHANGED <<sinkVars, followVars, ignoreExisting, err, fsVars>>]_vars

\* a line was rejected after the sink had taken an observation
C4_Witness == outcome = "error" /\ TotalCount(webRequestSummary) > 0

\* where a step may take read_log_files
C5_Step ==
    /\ (pc \in {"stat", "open"} /\ path = 0 /\ pc' # pc) =>
         (pc' = "recover" /\ err' = "FileNotFoundError")
    /\ (Polls /\ PollError(path, IF path = 0 THEN 0 ELSE Len(files[path]))
                   # "none") => pc' = "recover"
    /\ pc' = "dead" => pc = "line"
    /\ (pc = "recover" /\ pc' # pc) => (pc' = "stat" /\ file' = 0)
    /\ (pc = "stat" /\ pc' # pc) => pc' \in {"open", "recover"}
    /\ (pc = "open" /\ pc' # pc) => pc' \in {"read", "recover"}

\* C5: a missing file, a changed inode and a detected shrink never end
\* read_log_files: each takes it to the sleep of the except clause, which
\* always leads to a new follow() on the path.
C5_Recoverable ==
    /\ [][C5_Step]_vars
    /\ (pc = "recover") ~> (pc = "stat")

\* the loop went through the except clause and follows the file again
C5_Witness ==
    /\ pc = "read"
    /\ selfIgnoreExisting /\ ~ignoreExisting
    /\ file = path

\* what a step may do to ignoreExisting, and a follower started without it
C6_Step ==
    /\ ~ignoreExisting => ~ignoreExisting'
    /\ (pc = "stat" /\ pc' = "open") => followIgnoreExisting' = ignoreExisting
    /\ (pc = "open" /\ pc' = "read") => filePos' = 0
    /\ (pc # "recover" /\ pc' = "recover") => ~ignoreExisting'
    /\ (ReadsData /\ ~ignoreExisting
           /\ EndsWithNL(SubSeq(files[file], filePos + 1, filePos'))) =>
         pc' = "line"

\* C6: follow() gets the configured ignoreExisting only until the first
\* exception: the except clause clears it for good, so every follower opened
\* after a recovery starts at offset 0 and yields the complete lines it finds.
C6_SkipOnlyOnFirstStart ==
    /\ [](ignoreExisting => selfIgnoreExisting)
    /\ [](pc = "recover" => ~ignoreExisting)
    /\ []((pc \in {"open", "read", "sleep", "line"} /\ followIgnoreExisting)
             => ignoreExisting)
    /\ [][C6_Step]_vars

\* though configured to skip, the follower opened after a recovery yields a
\* line that starts at offset 0 and was in the file when it was opened
C6_Witness ==
    /\ selfIgnoreExisting /\ ~ignoreExisting
    /\ pc = "line"
    /\ ~shrunk
    /\ filePos = Len(curLine)
    /\ openSize >= filePos

\* C7: a follower opened with ignoreExisting true yields no character that
\* was in the file when it was opened (in a file that was not truncated
\* since, the yielded line starts at or after the size at open).
C7_ExistingContentDiscarded ==
    (pc = "line" /\ ignoreExisting /\ ~shrunk) =>
        filePos - Len(curLine) >= openSize

\* the buffer is the stretch of the file that ends at the offset
C8_Consumed ==
    (Following /\ ~shrunk) =>
        LET content == files[file]
            buf == IF pc = "line" THEN curLine ELSE line
            start == filePos - Len(buf)
        IN  /\ filePos <= Len(content)
            /\ start >= 0
            /\ buf = SubSeq(content, start + 1, filePos)
            /\ start > 0 => content[start] = NL
            /\ NewlinesIn(buf) = IF pc = "line" THEN 1 ELSE 0

\* a read takes the characters from the offset through the next newline
C8_Step ==
    (ReadsData /\ ~shrunk) =>
        LET content == files[file]
        IN  /\ filePos' > filePos
            /\ \A i \in (filePos + 1)..(filePos' - 1) : content[i] # NL
            /\ filePos' = Len(content) \/ content[filePos'] = NL
            /\ pc' = "line" <=>
                 (content[filePos'] = NL /\ ~followIgnoreExisting)

\* C8: while the open file is only appended to, the follower has consumed
\* exactly the characters before its offset: the buffer (or the line just
\* yielded) is what lies between the last consumed newline and the offset,
\* and each read takes the characters from the offset through the next
\* newline, yielding when it reaches one.
C8_ResumesAtOffset == []C8_Consumed /\ [][C8_Step]_vars

\* a second line is yielded by a follower that skips nothing, after a poll
C8_Witness ==
    /\ pc = "line"
    /\ ~shrunk
    /\ ~selfIgnoreExisting
    /\ filePos - Len(curLine) > 0
    /\ lastSize = filePos - Len(curLine)

\* C9: when the file is empty again at a poll of a follower that has read
\* from it (same inode), the poll raises FileShrunkError and the loop
\* recovers.
C9_TruncateToZeroRaises ==
    [][(Polls /\ file = path /\ path = origInode /\ filePos > 0
          /\ Len(files[path]) = 0) =>
          (pc' = "recover" /\ err' = "FileShrunkError")]_vars

C11_Expected(f, default) ==
    IF f \in DOMAIN parsed THEN parsed[f] ELSE default

\* C11: after the loop body normalized a parsed record, virtual_host is
\* "unspecified", server_port 80 and bytes_out 0 where the parser gave none,
\* every field the parser gave has its parsed value, and remote_host is the
\* alias of the parsed remote_host when the table has it and "def" otherwise.
C11_NormalizationDefaults ==
    parsed # NoEntry =>
        /\ DOMAIN curEntry = DOMAIN parsed \cup
                                {"virtual_host", "server_port", "bytes_out"}
        /\ curEntry.virtual_host = C11_Expected("virtual_host", "unspecified")
        /\ curEntry.server_port = C11_Expected("server_port", 80)
        /\ curEntry.bytes_out = C11_Expected("bytes_out", 0)
        /\ \A f \in DOMAIN parsed : curEntry[f] = parsed[f]
        /\ "remote_host" \in DOMAIN parsed =>
             remote_host = IF parsed.remote_host \in DOMAIN resolver
                           THEN resolver[parsed.remote_host] ELSE "def"

\* a record without the three optional fields, from a host the table lacks
C11_Witness ==
    /\ outcome = "observed"
    /\ DOMAIN parsed \cap {"virtual_host", "server_port", "bytes_out"} = {}
    /\ parsed.remote_host = "10.0.0.9"
    /\ remote_host = "def"

\* the counters of a label key, 0 for a key never observed
CountAt(metric, k) == IF k \in DOMAIN metric THEN metric[k].count ELSE 0
SumAt(metric, k) == IF k \in DOMAIN metric THEN metric[k].sum ELSE 0

\* the summary took one observation of amount under key k and nothing else
C12_Observed(k, amount) ==
    /\ CountAt(webRequestSummary', k) = CountAt(webRequestSummary, k) + 1
    /\ SumAt(webRequestSummary', k) = SumAt(webRequestSummary, k) + amount
    /\ DOMAIN webRequestSummary' = DOMAIN webRequestSummary \cup {k}
    /\ \A j \in DOMAIN webRequestSummary \ {k} :
           webRequestSummary'[j] = webRequestSummary[j]

C13_NoHistogramWhenDisabled ==
    /\ [](~enableHistogram => webRequestBytesOutHistogram = NoMetric)
    /\ [][enableHistogram' = enableHistogram]_vars

\* with the histogram off, the summary took an observation after a recovery
C13_Witness ==
    /\ ~enableHistogram
    /\ outcome = "observed"
    /\ TotalCount(webRequestSummary) > 0
    /\ selfIgnoreExisting /\ ~ignoreExisting

\* C14: when the poll finds the path rotated to another inode and raises,
\* the follower has read every complete line of the file it has open (the
\* old file, only appended to since it was opened): no newline lies beyond
\* its offset.
C14_NoLineLostAtRotation ==
    [][(Polls /\ path # 0 /\ path # origInode /\ file = origInode /\ ~shrunk) =>
          NextNL(files[file], filePos) = 0]_vars

\* the path has kept its inode and its file has only grown: every step of
\* the file system so far appended a character (each step counts one event
\* and only an append makes the file one longer)
OnlyAppended == path # 0 /\ events = Len(files[path])

\* what a step does while the file has only grown
C15_Step ==
    OnlyAppended' =>
        /\ OnlyAppended
        /\ path' = path
        /\ Len(files'[path]) >= Len(files[path])
        /\ SubSeq(files'[path], 1, Len(files[path])) = files[path]
        /\ Polls => (pc' = "read" /\ lastSize' = Len(files[path]))
        /\ pc' = "stat" => pc = "stat"
        /\ pc' = "open" => pc \in {"stat", "open"}
        /\ file # 0 => file' = file

\* C15: while the path keeps its inode and its file only grows, no poll of
\* follow() raises (a poll that finds nothing new goes back to reading and
\* sleeps again), read_log_files never reaches its except clause and never
\* opens the file a second time.
C15_GrowthNeverRaises ==
    /\ [](OnlyAppended =>
            /\ pc # "recover"
            /\ err = "none"
            /\ ignoreExisting = selfIgnoreExisting
            /\ file \in {0, path})
    /\ [][C15_Step]_vars

\* a poll passed on a file that had grown since it was opened
C15_Witness ==
    /\ OnlyAppended
    /\ pc = "read"
    /\ lastSize > openSize
    /\ filePos = lastSize

RECURSIVE TotalSum(_)
\* the sum counters of a metric, added up
TotalSum(metric) ==
    IF DOMAIN metric = {} THEN 0
    ELSE LET k == CHOOSE x \in DOMAIN metric : TRUE
         IN  metric[k].sum
             + TotalSum([x \in DOMAIN metric \ {k} |-> metric[x]])

\* the summary restricted to the keys with virtual_host and remote_host of hk
SummaryUnder(hk) ==
    LET K == {k \in DOMAIN webRequestSummary : <<k[1], k[5]>> = hk}
    IN  [k \in K |-> webRequestSummary[k]]

\* C16: with enableHistogram true the histogram holds, under each
\* (virtual_host, remote_host), as many observations and the same sum as the
\* summary holds under all its keys with that virtual_host and remote_host
\* together; and while read_log_files runs the summary holds one observation
\* for each yielded line for which parse_line returned an entry.
C16_HistogramMatchesSummary ==
    enableHistogram =>
        /\ \A hk \in DOMAIN webRequestBytesOutHistogram
                     \cup {<<k[1], k[5]>> : k \in DOMAIN webRequestSummary} :
              /\ CountAt(webRequestBytesOutHistogram, hk)
                   = TotalCount(SummaryUnder(hk))
              /\ SumAt(webRequestBytesOutHistogram, hk)
                   = TotalSum(SummaryUnder(hk))
        /\ pc # "dead" => TotalCount(webRequestSummary) = records

\* two summary keys (two ports) lie under one histogram key, which holds
\* the observations of both
C16_Witness ==
    /\ enableHistogram
    /\ pc # "dead"
    /\ \E hk \in DOMAIN webRequestBytesOutHistogram :
          /\ Cardinality(DOMAIN SummaryUnder(hk)) = 2
          /\ webRequestBytesOutHistogram[hk].count >= 2
          /\ webRequestBytesOutHistogram[hk].sum > 0

\* what a step does to follow()'s ignoreExisting, and a read with it
C17_Step ==
    /\ (ReadsData /\ EndsWithNL(SubSeq(files[file], filePos + 1, filePos'))) =>
         IF followIgnoreExisting
         THEN /\ pc' = "read"
              /\ curLine' = curLine
              /\ line' = <<>>
              /\ followIgnoreExisting'
         ELSE /\ pc' = "line"
              /\ curLine' = line \o SubSeq(files[file], filePos + 1, filePos')
    /\ (pc = "read" /\ pc' = "sleep") => ~followIgnoreExisting'
    /\ (followIgnoreExisting /\ ~followIgnoreExisting') =>
         ((pc = "read" /\ pc' = "sleep") \/ pc' = "recover")
    /\ (~followIgnoreExisting /\ followIgnoreExisting') =>
         (pc = "stat" /\ pc' = "open" /\ ignoreExisting)

\* C17: follow() called with ignoreExisting true drops every complete line
\* it reads until a read returns no data, lines appended after the open
\* among them; that read clears the flag, nothing else does while the
\* follower lives, and every complete line read from then on is yielded.
C17_DiscardsUntilFirstEmptyRead ==
    /\ [](pc \in {"sleep", "line"} => ~followIgnoreExisting)
    /\ [][C17_Step]_vars

\* a complete line appended after the open has just been read and dropped
C17_Witness ==
    /\ pc = "read"
    /\ followIgnoreExisting
    /\ ~shrunk
    /\ line = <<>>
    /\ filePos > openSize
    /\ files[file][filePos] = NL
    /\ curLine = <<>>

\* C18: a line follow() yields is one line of the file it reads, as the
\* file is when the line is yielded: the characters between the newline
\* before it (or the start of the file) and its own newline at the offset.
\* Characters buffered before a truncation are not joined with characters
\* written after it, no line starts inside a written line, and a raise
\* leaves no buffer behind.
C18_YieldedLineIsFileLine ==
    [][/\ (pc = "read" /\ pc' = "line") =>
            LET content == files[file]
                start == filePos' - Len(curLine')
            IN  /\ filePos' <= Len(content)
                /\ start >= 0
                /\ curLine' = SubSeq(content, start + 1, filePos')
                /\ start > 0 => content[start] = NL
       /\ pc' = "recover" => line' = <<>>]_vars

====
